---- MODULE Spec2Model ----
(***************************************************************************)
(* A model of knock_integration_log_client: the per-job recorder           *)
(* IntegrationTransactionLog and the HTTP client IntegrationLoggingService *)
(* it calls.  One action per public operation; the remote service and the  *)
(* HTTP transport are the environment, which answers every request sent    *)
(* with a response drawn from a small set, or with a transport failure.    *)
(***************************************************************************)
EXTENDS Integers, Sequences, FiniteSets, TLC

VARIABLES
    service_host,     \* IntegrationLoggingService._service_host (class attribute)
    cls_exceptions,   \* IntegrationTransactionLog._exceptions, the class attribute list
    objs,             \* the IntegrationTransactionLog instances, by name
    now,              \* the clock arrow.now() reads
    last,             \* what the last operation was and did: client calls, handler calls
    added,            \* history: the records add_exception built, by instance, in order
    returned,         \* history: the id the latest successful create request of an
                      \* instance returned
    flushed,          \* history: the payloads of the successful append-exceptions
                      \* requests of an instance, one after another
    supplied          \* history: which of end_time and response_url update() was
                      \* given (not None) so far, by instance

vars == <<service_host, cls_exceptions, objs, now, last, added, returned, flushed, supplied>>

(***************************************************************************)
(* Bounds and input sets.                                                  *)
(***************************************************************************)
MaxNow == 3                       \* readings of the clock (constructions + add_exception calls)

Instances == {"A", "B"}           \* the names of the recorder instances
Recorders == {"A"}                \* the instances Spec constructs
Ids == {"id1", "id2"}             \* identifiers the service hands out
Hosts == {"", "http://svc"}       \* arguments of initialize()
Statuses == {200, 201, 404, 500}  \* HTTP statuses the service answers the client with
RecorderStatuses == {200, 500}    \* those it answers a recorder's requests with
SyncTypes == {"daily_sync"}
Vendors == {"acme"}
CredentialIds == {"cred-1"}
Messages == {"boom"}              \* args[0] of the exceptions given to add_exception
StackTraces == {"Traceback"}      \* what traceback.format_exc() returns

None == "None"                    \* Python's None where a string is expected
NoMeta == [none |-> TRUE]         \* Python's None where a dict is expected
EmptyDict == [x \in {} |-> 0]     \* dict()

\* the arguments of the constructor in SpecTag
TagSyncTypes == {"daily_sync", "full"}
TagVendors == {"acme", "yardi"}
TagCredentialIds == {"cred-1", "7"}

\* dicts given as meta arguments; the second is supplied but falsy
MetaArgs == {NoMeta, EmptyDict, "k" :> 7, "error_count" :> 99}
EndTimeArgs == {None, "t1"}
ResponseUrlArgs == {None, "u1"}
PayloadEndTimes == {None, "", "t1"}                    \* end_time, the empty string included
PayloadMetas == {NoMeta, EmptyDict, "k" :> 7}          \* meta, the empty dict included
MetaFields == {<<"k", 7>>, <<"error_count", 99>>}   \* (key, value) of set_meta_field

(***************************************************************************)
(* Python values.                                                          *)
(***************************************************************************)
\* truth value of a string or None
Truthy(s) == s # None /\ s # ""

\* truth value of a dict or None
TruthyDict(d) == d # NoMeta /\ DOMAIN d # {}

\* d.update(m): the keys of m win
DictUpdate(d, m) == m @@ d

\* exception objects: the class and its args
NoError == [type |-> "None", args |-> <<>>]
UninitializedError ==
    [type |-> "Exception", args |-> <<"Not initialized. Call initialize with the service host.">>]
HTTPError == [type |-> "HTTPError", args |-> <<"status">>]
ConnectionError == [type |-> "ConnectionError", args |-> <<"transport">>]

(***************************************************************************)
(* The environment's answer to one HTTP request.                           *)
(***************************************************************************)
NoResponse == [arrived |-> FALSE, status |-> 0, id |-> None]
TransportFailure == [arrived |-> FALSE, status |-> -1, id |-> None]
\* answers to POST /transaction: a success carries integration_transaction_id
CreateResponses(statuses) ==
    {[arrived |-> TRUE, status |-> s, id |-> i] : s \in statuses \cap 200..299, i \in Ids}
    \cup {[arrived |-> TRUE, status |-> s, id |-> None] : s \in statuses \ 200..299}
    \cup {TransportFailure}
\* answers to the other requests
PlainResponses(statuses) ==
    {[arrived |-> TRUE, status |-> s, id |-> None] : s \in statuses} \cup {TransportFailure}

NoRequest == [method |-> "", url |-> "", body |-> EmptyDict]
\* the decoded JSON body of a response, and no body
Json(id) == [integration_transaction_id |-> id]
NoCall == [fn |-> "", sent |-> FALSE, request |-> NoRequest, response |-> NoResponse,
           raised |-> NoError, value |-> Json(None)]

(***************************************************************************)
(* IntegrationLoggingService                                               *)
(***************************************************************************)
\* variant of ValidateIsInitialized: `is None` in place of `not`
ValidateIsInitialized_IsNone(host) == host # None

\* _validate_is_initialized passes
ValidateIsInitialized(host) == Truthy(host)

\* response.raise_for_status() raises
RaiseForStatus(status) == status >= 400 /\ status < 600

\* session.post/put/get followed by raise_for_status(): the exception raised
Send(resp) ==
    IF ~resp.arrived THEN ConnectionError
    ELSE IF RaiseForStatus(resp.status) THEN HTTPError
    ELSE NoError

\* a client method: validate, build the request, send it, return the body
ClientCall(fn, host, method, path, body, resp) ==
    IF ~ValidateIsInitialized(host)
    THEN [NoCall EXCEPT !.fn = fn, !.raised = UninitializedError]
    ELSE [fn |-> fn, sent |-> TRUE,
          request |-> [method |-> method, url |-> host \o path, body |-> body],
          response |-> resp,
          raised |-> Send(resp),
          value |-> IF Send(resp) = NoError THEN Json(resp.id) ELSE Json(None)]

create_transaction(host, tag, start_time, meta, resp) ==
    ClientCall("create_transaction", host, "POST", "/transaction",
               [start_time |-> start_time, tag |-> tag, meta |-> meta], resp)

\* variant of UpdatePayload: the payload holds the arguments that are truthy
UpdatePayload_Truthy(end_time, meta, response_url) ==
    (IF Truthy(end_time) THEN "end_time" :> end_time ELSE EmptyDict)
    @@ (IF TruthyDict(meta) THEN "meta" :> meta ELSE EmptyDict)
    @@ (IF Truthy(response_url) THEN "response_url" :> response_url ELSE EmptyDict)

\* the payload holds the arguments that are not None
UpdatePayload(end_time, meta, response_url) ==
    (IF end_time # None THEN "end_time" :> end_time ELSE EmptyDict)
    @@ (IF meta # NoMeta THEN "meta" :> meta ELSE EmptyDict)
    @@ (IF response_url # None THEN "response_url" :> response_url ELSE EmptyDict)

update_transaction(host, integration_transaction_id, end_time, meta, response_url, resp) ==
    ClientCall("update_transaction", host, "PUT",
               "/transaction/" \o integration_transaction_id,
               UpdatePayload(end_time, meta, response_url), resp)

get_transaction(host, integration_transaction_id, resp) ==
    ClientCall("get_transaction", host, "GET",
               "/transaction/" \o integration_transaction_id, EmptyDict, resp)

search_transactions(host, resp) ==
    ClientCall("search_transactions", host, "POST", "/transaction/search",
               [distinct |-> "tag", order_by |-> "tag,start_time"], resp)

create_transaction_exceptions(host, integration_transaction_id, exceptions, resp) ==
    ClientCall("create_transaction_exceptions", host, "POST",
               "/transaction/" \o integration_transaction_id \o "/exception",
               [exceptions |-> exceptions], resp)

generate_transaction_exception_object(message, stacktrace, time) ==
    [message |-> message, stack_trace |-> stacktrace, created_time |-> time]

\* variant of generate_transaction_tag: the vendor comes first
generate_transaction_tag_VendorFirst(sync_type, vendor, credential_id) ==
    vendor \o "-" \o sync_type \o "-" \o credential_id

generate_transaction_tag(sync_type, vendor, credential_id) ==
    sync_type \o "-" \o vendor \o "-" \o credential_id

(***************************************************************************)
(* IntegrationTransactionLog                                               *)
(***************************************************************************)
\* the attributes of an instance that was not constructed yet
NoObject ==
    [live |-> FALSE, tag |-> None, meta |-> EmptyDict, id |-> None, end_time |-> None,
     start_time |-> 0, response_url |-> None, own_exceptions |-> FALSE,
     exceptions |-> <<>>, exception_count |-> 0, is_error |-> FALSE,
     exception_handler_func |-> None]

\* self._exceptions: the instance attribute if one was assigned, else the class attribute
Exceptions(o, cls) == IF o.own_exceptions THEN o.exceptions ELSE cls

\* what an operation did: the instance afterwards, the client calls it made in
\* order, the exceptions it gave to the handler, the exception that left it
Outcome(o, calls, handled, escaped) ==
    [obj |-> o, calls |-> calls, handled |-> handled, escaped |-> escaped]

\* variant of Caught: `except requests.HTTPError`
Caught_HTTPErrorOnly(e) == e.type = "HTTPError"

\* `except Exception as e` catches e: every exception the client raises is an Exception
Caught(e) == e.type \in {"Exception", "HTTPError", "ConnectionError"}

\* _on_exception(e): the calls of the registered handler
OnException(o, e) == IF o.exception_handler_func # None THEN <<e>> ELSE <<>>

\* the object built by __init__
NewObject(sync_type, vendor, credential_id, meta, time) ==
    [NoObject EXCEPT !.live = TRUE,
                     !.start_time = time,
                     !.tag = generate_transaction_tag(sync_type, vendor, credential_id),
                     !.meta = IF TruthyDict(meta) THEN meta ELSE EmptyDict]

\* create()
CreateOutcome(o, host, resp) ==
    LET c == create_transaction(host, o.tag, o.start_time, o.meta, resp)
    IN  IF c.raised # NoError
        THEN IF Caught(c.raised)
             THEN Outcome([o EXCEPT !.is_error = TRUE], <<c>>, OnException(o, c.raised), NoError)
             ELSE Outcome(o, <<c>>, <<>>, c.raised)
        ELSE Outcome([o EXCEPT !.id = c.value.integration_transaction_id], <<c>>, <<>>, NoError)

\* variant of NeedsCreate: the error flag is not looked at
NeedsCreate_IgnoresError(o) == o.id = None

\* update() and flush_exceptions() create the transaction first
NeedsCreate(o) == o.id = None /\ ~o.is_error

\* variant of MergeUpdate: error_count written before the caller's meta is merged
MergeUpdate_CountFirst(o, end_time, meta, response_url) ==
    [o EXCEPT !.end_time = IF end_time # None THEN end_time ELSE @,
              !.meta = IF meta # NoMeta
                       THEN DictUpdate(("error_count" :> o.exception_count) @@ @, meta)
                       ELSE ("error_count" :> o.exception_count) @@ @,
              !.response_url = IF response_url # None THEN response_url ELSE @]

\* the local part of update(): the fields merged, error_count written
MergeUpdate(o, end_time, meta, response_url) ==
    [o EXCEPT !.end_time = IF end_time # None THEN end_time ELSE @,
              !.meta = ("error_count" :> o.exception_count)
                       @@ (IF meta # NoMeta THEN DictUpdate(@, meta) ELSE @),
              !.response_url = IF response_url # None THEN response_url ELSE @]

\* variant of SendsUpdate: the remote id is not looked at
SendsUpdate_IgnoresId(o, end_time, meta, response_url) ==
    Truthy(end_time) \/ TruthyDict(meta) \/ Truthy(response_url)

\* update() sends the update request
SendsUpdate(o, end_time, meta, response_url) ==
    (Truthy(end_time) \/ TruthyDict(meta) \/ Truthy(response_url)) /\ o.id # None

\* variant of SendUpdateOutcome: the failure is absorbed without _on_exception(e)
SendUpdateOutcome_Silent(o, host, resp) ==
    Outcome(o, <<update_transaction(host, o.id, o.end_time, o.meta, o.response_url, resp)>>,
            <<>>, NoError)

\* variant of SendUpdateOutcome: a failed update request sets the error flag
SendUpdateOutcome_SetsError(o, host, resp) ==
    LET c == update_transaction(host, o.id, o.end_time, o.meta, o.response_url, resp)
    IN  Outcome([o EXCEPT !.is_error = @ \/ c.raised # NoError], <<c>>,
                IF c.raised # NoError THEN OnException(o, c.raised) ELSE <<>>, NoError)

\* the remote part of update(): the update request, its failure absorbed
SendUpdateOutcome(o, host, resp) ==
    LET c == update_transaction(host, o.id, o.end_time, o.meta, o.response_url, resp)
    IN  IF c.raised # NoError /\ ~Caught(c.raised)
        THEN Outcome(o, <<c>>, <<>>, c.raised)
        ELSE Outcome(o, <<c>>, IF c.raised # NoError THEN OnException(o, c.raised) ELSE <<>>,
                     NoError)

\* one outcome after another; an exception that left the first ends the operation
Then(first, second) ==
    IF first.escaped # NoError THEN first
    ELSE Outcome(second.obj, first.calls \o second.calls,
                 first.handled \o second.handled, second.escaped)

\* update(end_time, meta, response_url)
UpdateOutcome(o, host, end_time, meta, response_url, resp1, resp2) ==
    LET merged == MergeUpdate(o, end_time, meta, response_url)
        created == IF NeedsCreate(merged) THEN CreateOutcome(merged, host, resp1)
                   ELSE Outcome(merged, <<>>, <<>>, NoError)
        sent == IF SendsUpdate(created.obj, end_time, meta, response_url)
                THEN SendUpdateOutcome(created.obj, host, resp2)
                ELSE Outcome(created.obj, <<>>, <<>>, NoError)
    IN  Then(created, sent)

\* variant of Appended: the record is put in front
Appended_InFront(list, record) == <<record>> \o list

\* self._exceptions.append(exception_object)
Appended(list, record) == Append(list, record)

\* variant of FlushSkips: the length of the list is not looked at
FlushSkips_IgnoresLength(o, cls) == o.id = None

\* flush_exceptions() returns before sending anything
FlushSkips(o, cls) == Len(Exceptions(o, cls)) = 0 \/ o.id = None

\* variant of AfterFlush: the list is cleared whether or not the request failed
AfterFlush_AlwaysClears(o, c) == [o EXCEPT !.own_exceptions = TRUE, !.exceptions = <<>>]

\* variant of AfterFlush: the list is kept after a successful request too
AfterFlush_NeverClears(o, c) == o

\* variant of AfterFlush: a successful request resets the count with the list
AfterFlush_ResetsCount(o, c) ==
    IF c.raised # NoError THEN o
    ELSE [o EXCEPT !.own_exceptions = TRUE, !.exceptions = <<>>, !.exception_count = 0]

\* the local list after the append request
AfterFlush(o, c) ==
    IF c.raised # NoError THEN o
    ELSE [o EXCEPT !.own_exceptions = TRUE, !.exceptions = <<>>]

\* the remote part of flush_exceptions(): the append request, its failure absorbed
SendExceptionsOutcome(o, cls, host, resp) ==
    LET c == create_transaction_exceptions(host, o.id, Exceptions(o, cls), resp)
    IN  IF c.raised # NoError /\ ~Caught(c.raised)
        THEN Outcome(o, <<c>>, <<>>, c.raised)
        ELSE Outcome(AfterFlush(o, c), <<c>>,
                     IF c.raised # NoError THEN OnException(o, c.raised) ELSE <<>>, NoError)

\* flush_exceptions()
FlushOutcome(o, cls, host, resp1, resp2) ==
    LET created == IF NeedsCreate(o) THEN CreateOutcome(o, host, resp1)
                   ELSE Outcome(o, <<>>, <<>>, NoError)
        sent == IF FlushSkips(created.obj, cls)
                THEN Outcome(created.obj, <<>>, <<>>, NoError)
                ELSE SendExceptionsOutcome(created.obj, cls, host, resp2)
    IN  Then(created, sent)

(***************************************************************************)
(* The operations.  last records the operation, the instance it ran on,    *)
(* its arguments, the instance before it, and what it did.                 *)
(***************************************************************************)
NoArgs == [end_time |-> None, meta |-> NoMeta, response_url |-> None,
           sync_type |-> None, vendor |-> None, credential_id |-> None]

Did(op, r, args, before, list, outcome) ==
    [op |-> op, self |-> r, args |-> args,
     pre |-> [id |-> before.id, is_error |-> before.is_error,
              exception_count |-> before.exception_count,
              tag |-> before.tag, start_time |-> before.start_time],
     pre_exceptions |-> list,
     calls |-> outcome.calls, handled |-> outcome.handled, escaped |-> outcome.escaped]

Local(o) == Outcome(o, <<>>, <<>>, NoError)

\* history: the id the service returned to the latest successful create request
\* among calls, or the one before
Returned(before, calls) ==
    LET ok == {i \in DOMAIN calls : calls[i].fn = "create_transaction"
                                    /\ calls[i].raised = NoError}
    IN  IF ok = {} THEN before
        ELSE calls[CHOOSE i \in ok : \A j \in ok : j <= i].response.id

\* history: the payload of the append-exceptions request among calls, if it
\* was sent and succeeded
Flushed(calls) ==
    LET ok == {i \in DOMAIN calls : /\ calls[i].fn = "create_transaction_exceptions"
                                    /\ calls[i].sent
                                    /\ calls[i].raised = NoError}
    IN  IF ok = {} THEN <<>> ELSE calls[CHOOSE i \in ok : TRUE].request.body.exceptions

\* history: which of end_time and response_url are not None
SuppliedNames(end_time, response_url) ==
    (IF end_time # None THEN {"end_time"} ELSE {})
    \cup (IF response_url # None THEN {"response_url"} ELSE {})

\* the operation calls the client method fn
Makes(fn, outcome) == \E i \in DOMAIN outcome.calls : outcome.calls[i].fn = fn

\* the answers the environment can give to a request the operation makes: one
\* of responses when it is made, none when it is not
Answers(made, responses) == IF made THEN responses ELSE {NoResponse}

Init ==
    /\ service_host = None
    /\ cls_exceptions = <<>>
    /\ objs = [r \in Instances |-> NoObject]
    /\ now = 0
    /\ added = [r \in Instances |-> <<>>]
    /\ returned = [r \in Instances |-> None]
    /\ flushed = [r \in Instances |-> <<>>]
    /\ supplied = [r \in Instances |-> {}]
    /\ last = Did("none", None, NoArgs, NoObject, <<>>, Local(NoObject))

\* IntegrationLoggingService.initialize(service_host)
Initialize(host) ==
    /\ service_host' = host
    /\ last' = Did("initialize", None, NoArgs, NoObject, <<>>, Local(NoObject))
    /\ UNCHANGED <<cls_exceptions, objs, now, added, returned, flushed, supplied>>

\* IntegrationTransactionLog(sync_type, vendor, credential_id, meta)
Construct(r, sync_type, vendor, credential_id, meta) ==
    /\ ~objs[r].live
    /\ now < MaxNow
    /\ objs' = [objs EXCEPT ![r] = NewObject(sync_type, vendor, credential_id, meta, now)]
    /\ now' = now + 1
    /\ last' = Did("__init__", r,
                   [NoArgs EXCEPT !.meta = meta, !.sync_type = sync_type,
                                  !.vendor = vendor, !.credential_id = credential_id],
                   objs[r],
                   Exceptions(objs[r], cls_exceptions), Local(objs'[r]))
    /\ UNCHANGED <<service_host, cls_exceptions, added, returned, flushed, supplied>>

\* set_http_error_handler(exception_handler_func)
SetHttpErrorHandler(r, handler) ==
    /\ objs[r].live
    /\ objs' = [objs EXCEPT ![r].exception_handler_func = handler]
    /\ last' = Did("set_http_error_handler", r, NoArgs, objs[r],
                   Exceptions(objs[r], cls_exceptions), Local(objs'[r]))
    /\ UNCHANGED <<service_host, cls_exceptions, now, added, returned, flushed, supplied>>

\* set_meta_field(key, value)
SetMetaField(r, key, value) ==
    /\ objs[r].live
    /\ objs' = [objs EXCEPT ![r].meta = (key :> value) @@ @]
    /\ last' = Did("set_meta_field", r, NoArgs, objs[r],
                   Exceptions(objs[r], cls_exceptions), Local(objs'[r]))
    /\ UNCHANGED <<service_host, cls_exceptions, now, added, returned, flushed, supplied>>

\* create()
Create(r) ==
    /\ objs[r].live
    /\ \E resp \in CreateResponses(RecorderStatuses) :
         LET out == CreateOutcome(objs[r], service_host, resp)
         IN  /\ objs' = [objs EXCEPT ![r] = out.obj]
             /\ last' = Did("create", r, NoArgs, objs[r],
                            Exceptions(objs[r], cls_exceptions), out)
             /\ returned' = [returned EXCEPT ![r] = Returned(@, out.calls)]
    /\ UNCHANGED <<service_host, cls_exceptions, now, added, flushed, supplied>>

\* update(end_time, meta, response_url)
Update(r, end_time, meta, response_url) ==
    /\ objs[r].live
    /\ \E resp1 \in Answers(NeedsCreate(objs[r]), CreateResponses(RecorderStatuses)) :
       \E resp2 \in Answers(Makes("update_transaction",
                                  UpdateOutcome(objs[r], service_host, end_time, meta,
                                                response_url, resp1, NoResponse)),
                            PlainResponses(RecorderStatuses)) :
         LET out == UpdateOutcome(objs[r], service_host, end_time, meta, response_url,
                                  resp1, resp2)
         IN  /\ objs' = [objs EXCEPT ![r] = out.obj]
             /\ last' = Did("update", r,
                            [NoArgs EXCEPT !.end_time = end_time, !.meta = meta,
                                           !.response_url = response_url],
                            objs[r], Exceptions(objs[r], cls_exceptions), out)
             /\ returned' = [returned EXCEPT ![r] = Returned(@, out.calls)]
             /\ supplied' = [supplied EXCEPT ![r] =
                                 @ \cup SuppliedNames(end_time, response_url)]
    /\ UNCHANGED <<service_host, cls_exceptions, now, added, flushed>>

\* add_exception(e), e.args[0] = message
AddException(r, message, stacktrace) ==
    /\ objs[r].live
    /\ now < MaxNow
    /\ LET record == generate_transaction_exception_object(message, stacktrace, now)
       IN  /\ IF objs[r].own_exceptions
              THEN /\ objs' = [objs EXCEPT ![r].exceptions = Appended(@, record),
                                           ![r].exception_count = @ + 1]
                   /\ UNCHANGED cls_exceptions
              ELSE /\ cls_exceptions' = Appended(cls_exceptions, record)
                   /\ objs' = [objs EXCEPT ![r].exception_count = @ + 1]
    /\ now' = now + 1
    /\ last' = Did("add_exception", r, NoArgs, objs[r],
                   Exceptions(objs[r], cls_exceptions), Local(objs'[r]))
    /\ added' = [added EXCEPT ![r] =
                    Append(@, generate_transaction_exception_object(message, stacktrace, now))]
    /\ UNCHANGED <<service_host, returned, flushed, supplied>>

\* flush_exceptions()
FlushExceptions(r) ==
    /\ objs[r].live
    /\ \E resp1 \in Answers(NeedsCreate(objs[r]), CreateResponses(RecorderStatuses)) :
       \E resp2 \in Answers(Makes("create_transaction_exceptions",
                                  FlushOutcome(objs[r], cls_exceptions, service_host,
                                               resp1, NoResponse)),
                            PlainResponses(RecorderStatuses)) :
         LET out == FlushOutcome(objs[r], cls_exceptions, service_host, resp1, resp2)
         IN  /\ objs' = [objs EXCEPT ![r] = out.obj]
             /\ last' = Did("flush_exceptions", r, NoArgs, objs[r],
                            Exceptions(objs[r], cls_exceptions), out)
             /\ returned' = [returned EXCEPT ![r] = Returned(@, out.calls)]
             /\ flushed' = [flushed EXCEPT ![r] = @ \o Flushed(out.calls)]
    /\ UNCHANGED <<service_host, cls_exceptions, now, added, supplied>>

\* a client method called on its own: what it did, as one call
Called(c) ==
    Did(c.fn, None, NoArgs, NoObject, <<>>, Outcome(NoObject, <<c>>, <<>>, c.raised))

\* IntegrationLoggingService.create_transaction(tag, start_time, meta)
ClientCreateTransaction(tag, meta) ==
    /\ \E resp \in CreateResponses(Statuses) :
         last' = Called(create_transaction(service_host, tag, now, meta, resp))
    /\ UNCHANGED <<service_host, cls_exceptions, objs, now, added, returned, flushed, supplied>>

\* IntegrationLoggingService.update_transaction(id, end_time, meta, response_url)
ClientUpdateTransaction(id, end_time, meta, response_url) ==
    /\ \E resp \in PlainResponses(Statuses) :
         last' = [Called(update_transaction(service_host, id, end_time, meta,
                                            response_url, resp))
                     EXCEPT !.args = [NoArgs EXCEPT !.end_time = end_time, !.meta = meta,
                                                    !.response_url = response_url]]
    /\ UNCHANGED <<service_host, cls_exceptions, objs, now, added, returned, flushed, supplied>>

\* IntegrationLoggingService.get_transaction(id)
ClientGetTransaction(id) ==
    /\ \E resp \in CreateResponses(Statuses) :
         last' = Called(get_transaction(service_host, id, resp))
    /\ UNCHANGED <<service_host, cls_exceptions, objs, now, added, returned, flushed, supplied>>

\* IntegrationLoggingService.search_transactions()
ClientSearchTransactions ==
    /\ \E resp \in PlainResponses(Statuses) :
         last' = Called(search_transactions(service_host, resp))
    /\ UNCHANGED <<service_host, cls_exceptions, objs, now, added, returned, flushed, supplied>>

\* IntegrationLoggingService.create_transaction_exceptions(id, exceptions)
ClientCreateTransactionExceptions(id, exceptions) ==
    /\ \E resp \in PlainResponses(Statuses) :
         last' = Called(create_transaction_exceptions(service_host, id, exceptions, resp))
    /\ UNCHANGED <<service_host, cls_exceptions, objs, now, added, returned, flushed, supplied>>

Next ==
    \/ Initialize("http://svc")
    \/ \E r \in Recorders, s \in SyncTypes, v \in Vendors, c \in CredentialIds,
          m \in {NoMeta, "k" :> 7} : Construct(r, s, v, c, m)
    \/ \E r \in Recorders : SetHttpErrorHandler(r, "handler")
    \/ \E r \in Recorders, f \in MetaFields : SetMetaField(r, f[1], f[2])
    \/ \E r \in Recorders : Create(r)
    \/ \E r \in Recorders, e \in EndTimeArgs, m \in MetaArgs, u \in ResponseUrlArgs :
          Update(r, e, m, u)
    \/ \E r \in Recorders, m \in Messages, t \in StackTraces : AddException(r, m, t)
    \/ \E r \in Recorders : FlushExceptions(r)

Spec == Init /\ [][Next]_vars

\* one recorder built from any of the constructor's arguments, then used
NextTag ==
    \/ Initialize("http://svc")
    \/ \E r \in Recorders, s \in TagSyncTypes, v \in TagVendors, c \in TagCredentialIds :
          Construct(r, s, v, c, NoMeta)
    \/ \E r \in Recorders : SetHttpErrorHandler(r, "handler")
    \/ \E r \in Recorders : SetMetaField(r, "k", 7)
    \/ \E r \in Recorders : Create(r)
    \/ \E r \in Recorders, e \in EndTimeArgs : Update(r, e, "k" :> 7, None)
    \/ \E r \in Recorders, m \in Messages, t \in StackTraces : AddException(r, m, t)
    \/ \E r \in Recorders : FlushExceptions(r)

SpecTag == Init /\ [][NextTag]_vars

\* update_transaction called by a recorder's update() and called directly
NextPayload ==
    \/ Initialize("http://svc")
    \/ \E r \in Recorders, s \in SyncTypes, v \in Vendors, c \in CredentialIds :
          Construct(r, s, v, c, NoMeta)
    \/ \E r \in Recorders, e \in PayloadEndTimes, m \in PayloadMetas, u \in ResponseUrlArgs :
          Update(r, e, m, u)
    \/ \E i \in Ids, e \in PayloadEndTimes, m \in PayloadMetas, u \in ResponseUrlArgs :
          ClientUpdateTransaction(i, e, m, u)

SpecPayload == Init /\ [][NextPayload]_vars

\* two recorders, their operations interleaved
NextPair ==
    \/ Initialize("http://svc")
    \/ \E r \in Instances, s \in SyncTypes, v \in Vendors, c \in CredentialIds :
          Construct(r, s, v, c, NoMeta)
    \/ \E r \in Instances, m \in Messages, t \in StackTraces : AddException(r, m, t)
    \/ \E r \in Instances : FlushExceptions(r)

SpecPair == Init /\ [][NextPair]_vars

\* the client used on its own
NextClient ==
    \/ \E host \in Hosts : Initialize(host)
    \/ \E m \in {NoMeta, "k" :> 7} : ClientCreateTransaction("tag", m)
    \/ \E i \in Ids, e \in EndTimeArgs, m \in {NoMeta, "k" :> 7}, u \in ResponseUrlArgs :
          ClientUpdateTransaction(i, e, m, u)
    \/ \E i \in Ids : ClientGetTransaction(i)
    \/ ClientSearchTransactions
    \/ \E i \in Ids, m \in Messages, t \in StackTraces :
          ClientCreateTransactionExceptions(
              i, <<generate_transaction_exception_object(m, t, now)>>)

SpecClient == Init /\ [][NextClient]_vars

(***************************************************************************)
(* Properties.  They read last: the operation, the instance before it      *)
(* (last.pre, last.pre_exceptions), the client calls it made (last.calls), *)
(* and the instance after it, objs[last.self].                             *)
(***************************************************************************)
OnRecorder(ops) == last.op \in ops /\ last.self \in Instances
Self == objs[last.self]
SelfExceptions == Exceptions(Self, cls_exceptions)
CallsTo(fn) == {i \in DOMAIN last.calls : last.calls[i].fn = fn}
Failed(c) == c.raised # NoError
Supplied == \/ last.args.end_time # None
            \/ last.args.meta # NoMeta
            \/ last.args.response_url # None
IsPrefix(s, t) == Len(s) <= Len(t) /\ SubSeq(t, 1, Len(s)) = s

\* C1: create() on a recorder that already has a remote id makes no create
\* request and leaves the remote id as it was.
C1_CreateIdempotent ==
    (OnRecorder({"create"}) /\ last.pre.id # None)
        => (CallsTo("create_transaction") = {} /\ Self.id = last.pre.id)

\* C2: a create() that fails on a recorder with no remote id leaves is_error
\* true and the id unset, and calls the registered handler exactly once, with
\* the failure; once is_error is true it stays true, and update() and
\* flush_exceptions() make no create request.
C2_FailedCreate ==
    /\ (OnRecorder({"create"}) /\ last.pre.id = None /\ Failed(last.calls[1]))
           => /\ Self.is_error
              /\ Self.id = None
              /\ last.handled = IF Self.exception_handler_func # None
                                THEN <<last.calls[1].raised>> ELSE <<>>
    /\ (last.self \in Instances /\ last.pre.is_error) => Self.is_error
    /\ (OnRecorder({"update", "flush_exceptions"}) /\ last.pre.is_error)
           => CallsTo("create_transaction") = {}

C2_Witness ==
    /\ OnRecorder({"create"}) /\ last.pre.id = None /\ ~last.pre.is_error
    /\ Failed(last.calls[1]) /\ last.calls[1].sent
    /\ last.handled = <<last.calls[1].raised>>
    /\ Self.is_error

\* C3 as stated: flush_exceptions() with an empty local list makes no remote
\* call of any kind.
C3_EmptyFlushNoCall ==
    (OnRecorder({"flush_exceptions"}) /\ last.pre_exceptions = <<>>) => last.calls = <<>>

\* C3 amended: flush_exceptions() with an empty local list makes no update and
\* no append-exceptions request; it makes exactly one create request when the
\* recorder has no remote id and no failed create behind it, and no remote call
\* otherwise.
C3_EmptyFlush ==
    (OnRecorder({"flush_exceptions"}) /\ last.pre_exceptions = <<>>)
        => /\ CallsTo("create_transaction") = DOMAIN last.calls
           /\ Len(last.calls) = IF last.pre.id = None /\ ~last.pre.is_error THEN 1 ELSE 0

C3_Witness ==
    /\ OnRecorder({"flush_exceptions"}) /\ last.pre_exceptions = <<>>
    /\ last.pre.id = None /\ ~last.pre.is_error
    /\ Len(last.calls) = 1 /\ last.calls[1].sent /\ ~Failed(last.calls[1])

\* C4: with a remote id and a non-empty local list, flush_exceptions() sends
\* the whole list; if the request succeeds the list is empty afterwards, if it
\* fails the list is as it was; no other operation shortens the list.
C4_FlushClearsOnSuccessOnly ==
    /\ OnRecorder({"flush_exceptions"}) =>
           IF Self.id # None /\ last.pre_exceptions # <<>>
           THEN \E i \in DOMAIN last.calls :
                   /\ last.calls[i].fn = "create_transaction_exceptions"
                   /\ i = Len(last.calls)
                   /\ last.calls[i].sent =>
                          last.calls[i].request.body.exceptions = last.pre_exceptions
                   /\ SelfExceptions = IF Failed(last.calls[i]) THEN last.pre_exceptions
                                       ELSE <<>>
           ELSE SelfExceptions = last.pre_exceptions
    /\ (last.self \in Instances /\ last.op # "flush_exceptions")
           => IsPrefix(last.pre_exceptions, SelfExceptions)

C4_Witness ==
    /\ OnRecorder({"flush_exceptions"}) /\ last.pre.id # None
    /\ Len(last.pre_exceptions) = 2
    /\ last.calls # <<>> /\ Failed(last.calls[1]) /\ last.calls[1].sent
    /\ last.calls[1].request.body.exceptions = last.pre_exceptions
    /\ SelfExceptions = last.pre_exceptions

\* C5: every update request update() sends carries a meta whose error_count is
\* the recorder's exception count, the number of add_exception() calls made on
\* it so far, whatever the caller's meta holds.
C5_ErrorCountSent ==
    OnRecorder({"update"}) =>
        \A i \in CallsTo("update_transaction") :
            LET body == last.calls[i].request.body
            IN  /\ last.calls[i].sent
                /\ "meta" \in DOMAIN body
                /\ "error_count" \in DOMAIN body["meta"]
                /\ body["meta"]["error_count"] = Len(added[last.self])
                /\ body["meta"]["error_count"] = Self.exception_count

C5_Witness ==
    /\ OnRecorder({"update"})
    /\ CallsTo("update_transaction") # {}
    /\ last.args.meta = ("error_count" :> 99)
    /\ Len(added[last.self]) = 2

C7_UpdateWhenSupplied ==
    OnRecorder({"update"}) =>
        /\ Cardinality(CallsTo("update_transaction"))
               = IF Supplied /\ Self.id # None THEN 1 ELSE 0
        /\ \A i \in CallsTo("update_transaction") :
               last.calls[i].request.body
                   = UpdatePayload(Self.end_time, Self.meta, Self.response_url)

\* C8: update() and flush_exceptions() on a recorder with no remote id and no
\* failed create make a create request first; every update and
\* append-exceptions request follows a successful create request, carries the
\* id it returned, and is never made while the remote id is unset.
C8_CreateFirst ==
    OnRecorder({"create", "update", "flush_exceptions"}) =>
        /\ (last.op # "create" /\ last.pre.id = None /\ ~last.pre.is_error)
               => (last.calls # <<>> /\ last.calls[1].fn = "create_transaction")
        /\ CallsTo("create_transaction") \subseteq {1}
        /\ \A i \in CallsTo("update_transaction") \cup CallsTo("create_transaction_exceptions") :
               /\ returned[last.self] # None
               /\ Self.id = returned[last.self]
               /\ i = 1 => last.pre.id = returned[last.self]
               /\ i = 2 => (~Failed(last.calls[1])
                            /\ last.calls[1].value.integration_transaction_id
                                   = returned[last.self])
               /\ last.calls[i].sent =>
                      last.calls[i].request.url
                          = service_host \o "/transaction/" \o returned[last.self]
                            \o (IF last.calls[i].fn = "update_transaction" THEN ""
                                ELSE "/exception")

C8_Witness ==
    /\ OnRecorder({"update"}) /\ last.pre.id = None
    /\ Len(last.calls) = 2
    /\ last.calls[1].fn = "create_transaction" /\ last.calls[1].sent
    /\ last.calls[2].fn = "update_transaction" /\ last.calls[2].sent
    /\ last.calls[2].request.body["meta"] = ("k" :> 7) @@ ("error_count" :> 0)

\* C9: once is_error is true it stays true, and create(), update() and
\* flush_exceptions() make no remote request.
C9_ErrorTerminal ==
    (last.self \in Instances /\ last.pre.is_error)
        => (Self.is_error /\ last.calls = <<>>)

C11_TagAndStartTimeFixed ==
    last.self \in Instances =>
        /\ last.op = "__init__" =>
               /\ Self.tag = last.args.sync_type \o "-" \o last.args.vendor
                                \o "-" \o last.args.credential_id
               /\ Self.start_time = now - 1
        /\ last.op # "__init__" =>
               /\ Self.tag = last.pre.tag
               /\ Self.start_time = last.pre.start_time
        /\ \A i \in CallsTo("create_transaction") :
               last.calls[i].sent =>
                   /\ last.calls[i].request.body.tag = Self.tag
                   /\ last.calls[i].request.body.start_time = Self.start_time

C11_Witness ==
    /\ OnRecorder({"update"})
    /\ Self.exception_count = 2
    /\ last.calls # <<>> /\ last.calls[1].fn = "create_transaction" /\ last.calls[1].sent
    /\ last.calls[1].request.body.tag = "full-yardi-7"
    /\ last.calls[1].request.body.start_time = 0

\* C12: constructing a recorder, set_http_error_handler(), set_meta_field()
\* and add_exception() make no remote call and leave the remote id and
\* is_error as they were; add_exception() puts exactly one record at the end
\* of the local list and adds one to the exception count.
C12_LocalOperations ==
    OnRecorder({"__init__", "set_http_error_handler", "set_meta_field", "add_exception"}) =>
        /\ last.calls = <<>>
        /\ last.handled = <<>>
        /\ Self.id = last.pre.id
        /\ Self.is_error = last.pre.is_error
        /\ last.op = "add_exception" =>
               /\ added[last.self] # <<>>
               /\ SelfExceptions
                      = last.pre_exceptions \o <<added[last.self][Len(added[last.self])]>>
               /\ Self.exception_count = last.pre.exception_count + 1

C12_Witness ==
    /\ OnRecorder({"add_exception"})
    /\ last.pre.id # None
    /\ Len(last.pre_exceptions) = 1
    /\ Len(SelfExceptions) = 2
    /\ SelfExceptions[1] # SelfExceptions[2]

\* C13: for a recorder used alone, each flush sends the whole local list in
\* one append request, and the payloads of the successful append requests
\* followed by the local list are the records add_exception() built, in
\* order: none lost, none sent successfully twice.
C13_NothingLostOrRepeated ==
    /\ \A r \in Recorders :
           objs[r].live => flushed[r] \o Exceptions(objs[r], cls_exceptions) = added[r]
    /\ OnRecorder({"flush_exceptions"}) =>
           /\ Cardinality(CallsTo("create_transaction_exceptions")) <= 1
           /\ \A i \in CallsTo("create_transaction_exceptions") :
                  last.calls[i].sent =>
                      last.calls[i].request.body.exceptions = last.pre_exceptions

C13_Witness ==
    /\ OnRecorder({"flush_exceptions"})
    /\ Len(flushed[last.self]) = 1
    /\ Len(last.pre_exceptions) = 1
    /\ last.calls # <<>> /\ last.calls[1].sent /\ Failed(last.calls[1])
    /\ SelfExceptions = last.pre_exceptions
    /\ Len(added[last.self]) = 2

\* the exceptions the failed client calls of the last operation raised, in order
FailedCalls == SelectSeq(last.calls, Failed)
Failures == [i \in 1..Len(FailedCalls) |-> FailedCalls[i].raised]

\* C14: the registered handler is called exactly once for each remote call of
\* create(), update() or flush_exceptions() that fails, with that failure, and
\* never otherwise; one operation calls it at most once, and makes no second
\* remote call after a failed create.
C14_HandlerOncePerFailure ==
    last.self \in Instances =>
        /\ last.handled = IF Self.exception_handler_func # None THEN Failures ELSE <<>>
        /\ Len(last.handled) <= 1
        /\ (last.calls # <<>> /\ Failed(last.calls[1])) => Len(last.calls) = 1

C14_Witness ==
    /\ OnRecorder({"update"})
    /\ Len(last.calls) = 2
    /\ ~Failed(last.calls[1])
    /\ last.calls[2].raised = HTTPError
    /\ last.handled = <<HTTPError>>

\* the last operation made a request other than create, and it failed
FailedAfterCreate ==
    /\ last.self \in Instances
    /\ \E i \in CallsTo("update_transaction") \cup CallsTo("create_transaction_exceptions") :
           Failed(last.calls[i])

\* the last operation is an update() or flush_exceptions() that has something to send
HasSomethingToSend ==
    \/ /\ OnRecorder({"update"})
       /\ \/ Truthy(last.args.end_time)
          \/ TruthyDict(last.args.meta)
          \/ Truthy(last.args.response_url)
    \/ /\ OnRecorder({"flush_exceptions"})
       /\ last.pre_exceptions # <<>>

\* the last operation made a request other than create
SentAfterCreate ==
    CallsTo("update_transaction") \cup CallsTo("create_transaction_exceptions") # {}

\* C15: is_error turns true only in an operation whose create request failed; an
\* operation whose update or append-exceptions request failed leaves is_error as
\* it was and the id as it was when that request was made; and the operation
\* that follows such a failure, if it is an update() or flush_exceptions() with
\* something to send, makes its request again.
C15_ErrorOnlyFromCreate ==
    /\ [](last.self \in Instances =>
            /\ (Self.is_error /\ ~last.pre.is_error) =>
                   \E i \in CallsTo("create_transaction") : Failed(last.calls[i])
            /\ FailedAfterCreate =>
                   /\ Self.is_error = last.pre.is_error
                   /\ Self.id # None
                   /\ Self.id = returned[last.self]
                   /\ Len(last.calls) = 1 => Self.id = last.pre.id)
    /\ [][(FailedAfterCreate /\ HasSomethingToSend') => SentAfterCreate']_vars

C15_Witness ==
    /\ OnRecorder({"flush_exceptions"})
    /\ last.pre.id # None
    /\ Len(last.calls) = 1
    /\ last.calls[1].fn = "create_transaction_exceptions"
    /\ last.calls[1].raised = HTTPError
    /\ ~Self.is_error
    /\ Self.id = last.pre.id
    /\ flushed[last.self] # <<>>

\* the names among end_time, meta, response_url whose argument to the last
\* operation is not None
ArgsNotNone ==
    (IF last.args.end_time # None THEN {"end_time"} ELSE {})
    \cup (IF last.args.meta # NoMeta THEN {"meta"} ELSE {})
    \cup (IF last.args.response_url # None THEN {"response_url"} ELSE {})

\* C16: the payload of an update_transaction request holds exactly the arguments
\* that are not None, with their values; in the request made by a recorder's
\* update() it holds meta always, and end_time (response_url) exactly when this
\* or an earlier update() of the recorder was given one that is not None.
C16_PayloadOnlySupplied ==
    \A i \in CallsTo("update_transaction") :
        last.calls[i].sent =>
            LET body == last.calls[i].request.body
            IN  IF last.self \in Instances
                THEN /\ DOMAIN body \subseteq {"end_time", "meta", "response_url"}
                     /\ "meta" \in DOMAIN body
                     /\ body["meta"] = Self.meta
                     /\ "end_time" \in DOMAIN body <=> "end_time" \in supplied[last.self]
                     /\ "response_url" \in DOMAIN body
                            <=> "response_url" \in supplied[last.self]
                ELSE /\ DOMAIN body = ArgsNotNone
                     /\ "end_time" \in DOMAIN body => body["end_time"] = last.args.end_time
                     /\ "meta" \in DOMAIN body => body["meta"] = last.args.meta
                     /\ "response_url" \in DOMAIN body
                            => body["response_url"] = last.args.response_url

\* a recorder's update() given only a response_url sends the end_time an earlier
\* update() was given, here the empty string
C16_Witness ==
    /\ OnRecorder({"update"})
    /\ last.args.end_time = None
    /\ last.args.meta = NoMeta
    /\ last.args.response_url = "u1"
    /\ \E i \in CallsTo("update_transaction") :
           /\ last.calls[i].sent
           /\ DOMAIN last.calls[i].request.body = {"end_time", "meta", "response_url"}
           /\ last.calls[i].request.body["end_time"] = ""

\* C17 as stated: the error_count update() writes into meta is the number of
\* records in the local list at that moment.
C17_CountIsListLength ==
    OnRecorder({"update"}) => Self.meta["error_count"] = Len(SelfExceptions)

\* C17: the error_count update() writes into meta, whether or not it sends a
\* request, is the running exception count: the number of add_exception() calls
\* made on the recorder, which for a recorder used alone is the number of
\* records already flushed plus the number in the local list; a flush,
\* successful or failed, does not change the count.
C17_CountIsRunning ==
    /\ OnRecorder({"update"}) =>
           /\ Self.meta["error_count"] = Self.exception_count
           /\ Self.meta["error_count"] = Len(flushed[last.self]) + Len(SelfExceptions)
    /\ OnRecorder({"flush_exceptions"}) =>
           Self.exception_count = last.pre.exception_count
    /\ \A r \in Recorders : objs[r].live => objs[r].exception_count = Len(added[r])

\* update() after one record was flushed and another added since
C17_Witness ==
    /\ OnRecorder({"update"})
    /\ Len(flushed[last.self]) = 1
    /\ Len(SelfExceptions) = 1
    /\ Self.meta["error_count"] = 2
    /\ last.calls = <<>>

\* the records of a list
Records(list) == {list[i] : i \in DOMAIN list}

\* C18: a recorder just constructed has an empty exception list; the list of
\* every recorder holds only records added through that recorder, and so does
\* every append-exceptions request it sends.
C18_RecordersIsolated ==
    /\ OnRecorder({"__init__"}) => SelfExceptions = <<>>
    /\ \A r \in Instances :
           objs[r].live => Records(Exceptions(objs[r], cls_exceptions)) \subseteq Records(added[r])
    /\ OnRecorder({"flush_exceptions"}) =>
           \A i \in CallsTo("create_transaction_exceptions") :
               last.calls[i].sent =>
                   Records(last.calls[i].request.body.exceptions)
                       \subseteq Records(added[last.self])

\* C19: no recorder has is_error true and a remote id at once: it is not
\* created, created with an id, or failed.
C19_TriState ==
    \A r \in Instances : objs[r].live => ~(objs[r].is_error /\ objs[r].id # None)

====
